---------------------------- MODULE Spec2Model ----------------------------
(***************************************************************************)
(* Model of webui/src/components/App.tsx: the App component (URL input,    *)
(* debounced copy of the input, validation effect, submission handler,     *)
(* in-flight request, render conditions of the panels).                    *)
(*                                                                         *)
(* Strings that the code inspects character by character (the URLs, which  *)
(* go through String.prototype.startsWith) are sequences of one-character  *)
(* strings.  Strings that the code only stores, compares with the empty    *)
(* string or renders (messages, summary text) are TLA+ strings.  The four  *)
(* user-facing messages of the source are Chinese literals; they are       *)
(* written here in ASCII, one distinct string per source literal.          *)
(*                                                                         *)
(* Scheduling of effects follows React 18: a passive effect caused by a    *)
(* discrete user event (the change event of the input, unmounting) is run  *)
(* synchronously with the commit of that render; a passive effect caused   *)
(* by an update that does not come from a discrete event (the setTimeout   *)
(* callback of useDebounce) is run after the commit, as a step of its own, *)
(* and at the latest before the next render starts.                        *)
(***************************************************************************)
EXTENDS Naturals, Sequences, FiniteSets

\* ------------------------------------------------------------------ bounds
\* Amount of time that passes in one Tick step.
TickStep == 100
\* Largest number of requests in flight that DispatchSubmit may build up.
MaxRequests == 1
\* The history counter burst stops counting here.
MaxBurst == 2
\* Longest suffix appended to a test string of the validator.
MaxSuffix == 2

\* ------------------------------------------------------- program constants
\* useDebounce(url, 300)
Delay == 300

\* 'https://www.bilibili.com/video'
BiliPrefix ==
  << "h","t","t","p","s",":","/","/","w","w","w",".","b","i","l","i","b",
     "i","l","i",".","c","o","m","/","v","i","d","e","o" >>

\* setUrlError('URL必须以 https://www.bilibili.com/video 开头')
MsgUrlError == "URL must start with https://www.bilibili.com/video"
\* setError('请输入视频URL')
MsgEmpty == "please enter a video URL"
\* setError('URL格式不正确')
MsgInvalid == "invalid URL format"
\* data.error || '总结失败'
MsgFailed == "summary failed"
\* setError('网络请求失败，请检查服务器是否运行')
MsgNetwork == "network request failed, check whether the server is running"

\* ------------------------------------------------------------ input values
EmptyUrl == << >>
\* a string that shares no prefix with the literal
BadUrl == << "b","a","d" >>
\* the literal without its last character: a proper prefix of it
NearMissUrl == SubSeq(BiliPrefix, 1, Len(BiliPrefix) - 1)
\* the literal followed by a suffix
VideoUrl == BiliPrefix \o << "/","B","V","1" >>

\* The values the user can give the input field.
InputUrls == { EmptyUrl, BadUrl, NearMissUrl, BiliPrefix, VideoUrl }

\* A field that the JSON body does not have (JavaScript undefined).
Undefined == "<undefined>"

\* JavaScript truthiness of a string-or-undefined value.
Truthy(v) == v # "" /\ v # Undefined

\* What the server can answer.  kind "json": a body that parses to an object
\* with these fields; kind "null": a body that parses to null; kind "text":
\* a body that is not JSON.
ResponseBodies ==
  { [kind |-> "json", success |-> TRUE, summary |-> s, error |-> Undefined] :
      s \in { "# Hi", "# Other", "", Undefined } }
  \cup
  { [kind |-> "json", success |-> FALSE, summary |-> Undefined, error |-> e] :
      e \in { "boom", "", Undefined } }
  \cup
  { [kind |-> "null"], [kind |-> "text"] }

NoBody == [kind |-> "none"]

\* ------------------------------------------------------------------- state
VARIABLES
  mounted,            \* the component is mounted
  url,                \* useState('') of App: the raw input
  debouncedUrl,       \* debouncedValue of useDebounce
  timers,             \* pending setTimeout handlers of useDebounce
  urlError,           \* useState('') of App: validation error
  validationPending,  \* the validation effect is scheduled and has not run
  isLoading,          \* useState(false) of App
  summary,            \* useState('') of App
  error,              \* useState('') of App: submission error
  requests,           \* the fetch calls that have not settled, oldest first
                      \* (url: the url of the body sent; phase, body: what
                      \* has come back; input: history)
  last,               \* history: the step that led to this state
  burst,              \* history: length of the current run of input changes
                      \* each made less than Delay after the one before
  validated,          \* the last call of isValidBiliUrl made on its own: empty,
                      \* or one record of the argument and the result
  recovering          \* "", or the submission error that the user has set
                      \* out to recover from by editing and resubmitting

vars == << mounted, url, debouncedUrl, timers, urlError, validationPending,
           isLoading, summary, error, requests, last, burst, validated,
           recovering >>

\* ---------------------------------------------------------- pure functions
\* String.prototype.startsWith
StartsWith(s, p) == Len(s) >= Len(p) /\ SubSeq(s, 1, Len(p)) = p

\* Faulty variant: url.includes(...) instead of url.startsWith(...).
isValidBiliUrlIncludes(u) ==
  \E k \in 0..Len(u) :
    k + Len(BiliPrefix) <= Len(u) /\ SubSeq(u, k + 1, k + Len(BiliPrefix)) = BiliPrefix

\* Faulty variant: the literal is compared without its last character.
isValidBiliUrlShortLiteral(u) ==
  StartsWith(u, SubSeq(BiliPrefix, 1, Len(BiliPrefix) - 1))

isValidBiliUrl(u) == StartsWith(u, BiliPrefix)

\* The value the validation effect gives urlError for a debounced URL.
ValidationResult(d) ==
  IF d # EmptyUrl /\ ~isValidBiliUrl(d) THEN MsgUrlError ELSE ""

\* ------------------------------------------------------- render conditions
\* Faulty variant: disabled={isLoading || !debouncedUrl || !!urlError || !!error}
SubmitDisabledWhileError ==
  isLoading \/ debouncedUrl = EmptyUrl \/ Truthy(urlError) \/ Truthy(error)

\* Faulty variant: disabled={!debouncedUrl || !!urlError}
SubmitDisabledNoLoading == debouncedUrl = EmptyUrl \/ Truthy(urlError)

\* disabled={isLoading || !debouncedUrl || !!urlError}
SubmitDisabled == isLoading \/ debouncedUrl = EmptyUrl \/ Truthy(urlError)

\* Faulty variant: the input has no disabled attribute.
InputDisabledNever == FALSE

\* disabled={isLoading}
InputDisabled == isLoading

\* {isLoading && ...}
SpinnerVisible == mounted /\ isLoading

\* {error && !isLoading && ...}
ErrorPanelVisible == mounted /\ Truthy(error) /\ ~isLoading

\* {summary && !isLoading && ...}
SummaryPanelVisible == mounted /\ Truthy(summary) /\ ~isLoading

\* ------------------------------------------------------------------ effects
\* The pending validation effect, run before the next render starts.
FlushedUrlError ==
  IF validationPending THEN ValidationResult(debouncedUrl) ELSE urlError

\* Faulty variant: the effect of useDebounce returns no cleanup.
ClearTimeoutMissing(v) == timers

\* clearTimeout(handler) of the effect that was run for value v.
ClearTimeout(v) == { t \in timers : t.value # v }

\* Faulty variant: the effect does not depend on value, so a change of the
\* input schedules nothing.
SetTimeoutNotRescheduled(ts, v) == ts

\* setTimeout(() => setDebouncedValue(v), delay)
SetTimeout(ts, v) == ts \cup { [value |-> v, age |-> 0] }

Init ==
  /\ mounted = TRUE
  /\ url = EmptyUrl
  /\ debouncedUrl = EmptyUrl
  /\ timers = SetTimeout({}, EmptyUrl)
  /\ urlError = ""
  /\ validationPending = FALSE
  /\ isLoading = FALSE
  /\ summary = ""
  /\ error = ""
  /\ requests = << >>
  /\ last = "mount"
  /\ burst = 0
  /\ validated = << >>
  /\ recovering = ""

\* ------------------------------------------------------------------ actions
\* Time passes: every pending timer gets older (ages beyond the delay are
\* not told apart).
Aged(t) ==
  [t EXCEPT !.age = IF t.age + TickStep >= Delay THEN Delay ELSE t.age + TickStep]

Tick ==
  /\ \E t \in timers : t.age < Delay
  /\ timers' = { Aged(t) : t \in timers }
  /\ last' = "tick"
  /\ UNCHANGED << validated, recovering >>
  /\ UNCHANGED << mounted, url, debouncedUrl, urlError, validationPending,
                  isLoading, summary, error, requests, burst >>

\* onChange={(e) => setUrl(e.target.value)}, the render it causes, and the
\* effect of useDebounce for the new value (cleanup of the old one first).
ChangeUrl(v) ==
  /\ mounted
  /\ ~InputDisabled
  /\ v # url
  /\ url' = v
  /\ timers' = SetTimeout(ClearTimeout(url), v)
  /\ urlError' = FlushedUrlError
  /\ validationPending' = FALSE
  /\ last' = "change"
  /\ UNCHANGED << validated, recovering >>
  /\ burst' = IF burst > 0 /\ \E t \in timers : t.age < Delay
               THEN (IF burst < MaxBurst THEN burst + 1 ELSE MaxBurst)
               ELSE 1
  /\ UNCHANGED << mounted, debouncedUrl, isLoading, summary, error, requests >>

\* The setTimeout callback: setDebouncedValue(value).  A value equal to the
\* current state causes no render.
TimerFire(t) ==
  /\ mounted
  /\ t \in timers
  /\ t.age >= Delay
  /\ timers' = timers \ {t}
  /\ IF t.value # debouncedUrl
       THEN /\ debouncedUrl' = t.value
            /\ urlError' = FlushedUrlError
            /\ validationPending' = TRUE
       ELSE UNCHANGED << debouncedUrl, urlError, validationPending >>
  /\ last' = "timer"
  /\ UNCHANGED << validated, recovering >>
  /\ UNCHANGED burst
  /\ UNCHANGED << mounted, url, isLoading, summary, error, requests >>

\* The effect with dependency [debouncedUrl].
RunValidation ==
  /\ mounted
  /\ validationPending
  /\ urlError' = ValidationResult(debouncedUrl)
  /\ validationPending' = FALSE
  /\ last' = "validate"
  /\ UNCHANGED << validated, recovering >>
  /\ UNCHANGED burst
  /\ UNCHANGED << mounted, url, debouncedUrl, timers, isLoading, summary,
                  error, requests >>

\* setError(msg); return.  A setError with the value that error already
\* has causes no render, so a pending effect stays pending.
AbortWith(msg) ==
  /\ error' = msg
  /\ urlError' = IF error # msg THEN FlushedUrlError ELSE urlError
  /\ validationPending' = (validationPending /\ error = msg)
  /\ UNCHANGED << isLoading, summary, requests >>

\* Faulty variant: setError('') is missing.
IssueRequestKeepError ==
  /\ isLoading' = TRUE
  /\ summary' = ""
  /\ requests' = Append(requests,
                   [url |-> debouncedUrl, phase |-> "fetch", body |-> NoBody,
                    input |-> url])
  /\ urlError' = FlushedUrlError
  /\ validationPending' = FALSE
  /\ UNCHANGED error

\* Faulty variant: setSummary('') is missing.
IssueRequestKeepSummary ==
  /\ isLoading' = TRUE
  /\ error' = ""
  /\ requests' = Append(requests,
                   [url |-> debouncedUrl, phase |-> "fetch", body |-> NoBody,
                    input |-> url])
  /\ urlError' = FlushedUrlError
  /\ validationPending' = FALSE
  /\ UNCHANGED summary

\* Faulty variant: setIsLoading(true) is missing.
IssueRequestNoLoading ==
  /\ error' = ""
  /\ summary' = ""
  /\ requests' = Append(requests,
                   [url |-> debouncedUrl, phase |-> "fetch", body |-> NoBody,
                    input |-> url])
  /\ urlError' = FlushedUrlError
  /\ validationPending' = FALSE
  /\ UNCHANGED isLoading

\* Faulty variant: body: JSON.stringify({ url: url })
IssueRequestSendsRawUrl ==
  /\ isLoading' = TRUE
  /\ error' = ""
  /\ summary' = ""
  /\ requests' = Append(requests,
                   [url |-> url, phase |-> "fetch", body |-> NoBody,
                    input |-> url])
  /\ urlError' = FlushedUrlError
  /\ validationPending' = FALSE

\* setIsLoading(true); setError(''); setSummary(''); fetch(..., { url: debouncedUrl }).
\* The field input of the request is history: the raw input at that moment.
IssueRequest ==
  /\ isLoading' = TRUE
  /\ error' = ""
  /\ summary' = ""
  /\ requests' = Append(requests,
                   [url |-> debouncedUrl, phase |-> "fetch", body |-> NoBody,
                    input |-> url])
  /\ urlError' = FlushedUrlError
  /\ validationPending' = FALSE

\* Faulty variant: the first check reads the raw input, if (!url).
handleSubmitChecksRawUrl ==
  /\ last' = "submit"
  /\ UNCHANGED << validated, recovering >>
  /\ UNCHANGED << mounted, url, debouncedUrl, timers, burst >>
  /\ IF url = EmptyUrl THEN AbortWith(MsgEmpty)
     ELSE IF ~isValidBiliUrl(debouncedUrl) THEN AbortWith(MsgInvalid)
     ELSE IssueRequest

\* handleSubmit up to its first await.
handleSubmit ==
  /\ last' = "submit"
  /\ UNCHANGED << validated, recovering >>
  /\ UNCHANGED << mounted, url, debouncedUrl, timers, burst >>
  /\ IF debouncedUrl = EmptyUrl THEN AbortWith(MsgEmpty)
     ELSE IF ~isValidBiliUrl(debouncedUrl) THEN AbortWith(MsgInvalid)
     ELSE IssueRequest

\* The user activates the submit control (click, or Enter in the input).
Submit ==
  /\ mounted
  /\ ~SubmitDisabled
  /\ handleSubmit

\* A submit event that reaches the form without the submit control
\* (<form onSubmit={handleSubmit}>: form.requestSubmit(), a dispatched event).
DispatchSubmit ==
  /\ mounted
  /\ isValidBiliUrl(debouncedUrl) => Len(requests) < MaxRequests
  /\ handleSubmit

Remove(i) == SubSeq(requests, 1, i - 1) \o SubSeq(requests, i + 1, Len(requests))

\* Faulty variant: the setters take effect after unmount as well.
CaughtAfterUnmount(i) ==
  /\ requests' = Remove(i)
  /\ error' = MsgNetwork
  /\ isLoading' = FALSE
  /\ urlError' = FlushedUrlError
  /\ validationPending' = FALSE
  /\ UNCHANGED summary
  /\ UNCHANGED << mounted, url, debouncedUrl, timers >>

\* Faulty variant: there is no finally block.
CaughtNoFinally(i) ==
  /\ requests' = Remove(i)
  /\ IF mounted
       THEN /\ error' = MsgNetwork
            /\ urlError' = FlushedUrlError
            /\ validationPending' = FALSE
            /\ UNCHANGED << summary, isLoading >>
       ELSE UNCHANGED << error, isLoading, urlError, validationPending, summary >>
  /\ UNCHANGED << mounted, url, debouncedUrl, timers >>

\* Faulty variant: the catch block only logs the exception.
CaughtLogOnly(i) ==
  /\ requests' = Remove(i)
  /\ IF mounted
       THEN /\ isLoading' = FALSE
            /\ urlError' = FlushedUrlError
            /\ validationPending' = FALSE
            /\ UNCHANGED << summary, error >>
       ELSE UNCHANGED << error, isLoading, urlError, validationPending, summary >>
  /\ UNCHANGED << mounted, url, debouncedUrl, timers >>

\* The state after the catch block and the finally block.  After unmount
\* the setters change nothing.
Caught(i) ==
  /\ requests' = Remove(i)
  /\ IF mounted
       THEN /\ error' = MsgNetwork
            /\ isLoading' = FALSE
            /\ urlError' = FlushedUrlError
            /\ validationPending' = FALSE
            /\ UNCHANGED summary
       ELSE UNCHANGED << error, isLoading, urlError, validationPending, summary >>
  /\ UNCHANGED << mounted, url, debouncedUrl, timers >>

\* await fetch(...) resolves: a response with body b has arrived.
FetchResolve(i, b) ==
  /\ i \in 1..Len(requests)
  /\ requests[i].phase = "fetch"
  /\ requests' = [requests EXCEPT ![i].phase = "json", ![i].body = b]
  /\ last' = "response"
  /\ UNCHANGED << validated, recovering >>
  /\ UNCHANGED burst
  /\ UNCHANGED << mounted, url, debouncedUrl, timers, urlError,
                  validationPending, isLoading, summary, error >>

\* await fetch(...) rejects.
FetchReject(i) ==
  /\ i \in 1..Len(requests)
  /\ requests[i].phase = "fetch"
  /\ Caught(i)
  /\ last' = "settle"
  /\ UNCHANGED << validated, recovering >>
  /\ UNCHANGED burst

\* await response.json() settles, and the rest of handleSubmit runs.
JsonSettle(i) ==
  /\ i \in 1..Len(requests)
  /\ requests[i].phase = "json"
  /\ last' = "settle"
  /\ UNCHANGED << validated, recovering >>
  /\ UNCHANGED burst
  /\ LET data == requests[i].body IN
     IF data.kind # "json" THEN
       \* response.json() rejects, or data.success throws on null
       Caught(i)
     ELSE
       /\ requests' = Remove(i)
       /\ UNCHANGED << mounted, url, debouncedUrl, timers >>
       /\ IF ~mounted THEN
            UNCHANGED << error, isLoading, urlError, validationPending, summary >>
          ELSE
            /\ isLoading' = FALSE
            /\ urlError' = FlushedUrlError
            /\ validationPending' = FALSE
            /\ IF data.success
                 THEN /\ summary' = data.summary
                      /\ UNCHANGED error
                 ELSE /\ error' = IF Truthy(data.error) THEN data.error ELSE MsgFailed
                      /\ UNCHANGED summary

\* The component is torn down: the cleanup of the useDebounce effect runs.
Unmount ==
  /\ mounted
  /\ mounted' = FALSE
  /\ timers' = ClearTimeout(url)
  /\ urlError' = FlushedUrlError
  /\ validationPending' = FALSE
  /\ last' = "unmount"
  /\ UNCHANGED << validated, recovering >>
  /\ UNCHANGED burst
  /\ UNCHANGED << url, debouncedUrl, isLoading, summary, error, requests >>

UserNext ==
  \/ Tick
  \/ \E v \in InputUrls : ChangeUrl(v)
  \/ \E t \in timers : TimerFire(t)
  \/ RunValidation
  \/ Submit
  \/ \E i \in 1..Len(requests) : \E b \in ResponseBodies : FetchResolve(i, b)
  \/ \E i \in 1..Len(requests) : FetchReject(i)
  \/ \E i \in 1..Len(requests) : JsonSettle(i)
  \/ Unmount

\* The component driven through its controls.
Next == UserNext

Spec == Init /\ [][Next]_vars

\* The component driven through its controls and by submit events that do
\* not come from the submit control.
HandlerNext == UserNext \/ DispatchSubmit

HandlerSpec == Init /\ [][HandlerNext]_vars

\* Every request settles: a pending fetch resolves or rejects, and a pending
\* response.json() resolves or rejects.
FetchSettles ==
  \E i \in 1..Len(requests) :
    FetchReject(i) \/ \E b \in ResponseBodies : FetchResolve(i, b)

JsonSettles == \E i \in 1..Len(requests) : JsonSettle(i)

LiveSpec == Spec /\ WF_vars(FetchSettles) /\ WF_vars(JsonSettles)

\* The timers of the event loop run: time passes and a due callback is called.
TimerFires == \E t \in timers : TimerFire(t)

DebounceLiveSpec == Spec /\ WF_vars(Tick) /\ WF_vars(TimerFires)

\* ------------------------------------------------ recovery from an error
\* The user, looking at a submission error of the mounted component with no
\* request in flight, sets out to recover from it.
StartRecovery ==
  /\ mounted
  /\ recovering = ""
  /\ Truthy(error)
  /\ requests = << >>
  /\ recovering' = error
  /\ UNCHANGED << mounted, url, debouncedUrl, timers, urlError,
                  validationPending, isLoading, summary, error, requests,
                  last, burst, validated >>

\* The steps of a user who recovers, and of a server that answers with a
\* summary: the user replaces an input that lacks the prefix by one that has
\* it, lets the debounce and the validation run, and submits a debounced URL
\* that has the prefix; the component is not unmounted.
RecoveryStep ==
  /\ recovering # ""
  /\ \/ Tick
     \/ \E v \in InputUrls :
          isValidBiliUrl(v) /\ ~isValidBiliUrl(url) /\ ChangeUrl(v)
     \/ \E t \in timers : TimerFire(t)
     \/ RunValidation
     \/ isValidBiliUrl(debouncedUrl) /\ Submit
     \/ \E i \in 1..Len(requests) : \E b \in ResponseBodies :
          b.kind = "json" /\ b.success /\ Truthy(b.summary) /\ FetchResolve(i, b)
     \/ \E i \in 1..Len(requests) : JsonSettle(i)

\* Any step of the component until the user sets out to recover: the steps
\* through the controls, and submit events dispatched to the form while no
\* request is in flight (the empty-input error arises only from these).
FreeStep ==
  /\ recovering = ""
  /\ UserNext \/ (requests = << >> /\ DispatchSubmit)

RecoveryNext == FreeStep \/ StartRecovery \/ RecoveryStep

\* The fairness says that the recovering user and the answering server keep
\* going: it selects the runs whose existence is in question.
RecoverySpec == Init /\ [][RecoveryNext]_vars /\ WF_vars(RecoveryStep)

\* ------------------------------------------------- the validator on its own
\* Arguments for isValidBiliUrl: every prefix of the literal (the empty
\* string and the literal included), the literal with one character
\* replaced, and the literal after one other character, each followed by
\* every string of at most MaxSuffix characters.
SuffixChars == { "/", "x" }

Suffixes == UNION { [1..n -> SuffixChars] : n \in 0..MaxSuffix }

Stems ==
  { SubSeq(BiliPrefix, 1, k) : k \in 0..Len(BiliPrefix) }
  \cup { [BiliPrefix EXCEPT ![k] = "#"] : k \in 1..Len(BiliPrefix) }
  \cup { << c >> \o BiliPrefix : c \in { " ", "h" } }

TestStrings == { stem \o suffix : stem \in Stems, suffix \in Suffixes }

\* isValidBiliUrl(s) is called and returns.
ApplyValidator(s) ==
  /\ validated' = << [arg |-> s, result |-> isValidBiliUrl(s)] >>
  /\ UNCHANGED << mounted, url, debouncedUrl, timers, urlError,
                  validationPending, isLoading, summary, error, requests,
                  last, burst, recovering >>

ValidatorNext == \E s \in TestStrings : ApplyValidator(s)

ValidatorSpec == Init /\ [][ValidatorNext]_vars

\* ================================================================== claims
\* The debounced URL begins with the literal prefix.
HasPrefix(u) == StartsWith(u, BiliPrefix)

\* The number of panels on screen.
VisiblePanels ==
  (IF SpinnerVisible THEN 1 ELSE 0) + (IF ErrorPanelVisible THEN 1 ELSE 0)
    + (IF SummaryPanelVisible THEN 1 ELSE 0)

\* C1: in every reachable state at most one of the spinner panel, the error
\* panel and the summary panel is visible; the error panel and the summary
\* panel are never visible together.
C1_PanelsMutuallyExclusive ==
  /\ VisiblePanels <= 1
  /\ ~(Truthy(error) /\ Truthy(summary) /\ ~isLoading /\ mounted)

\* C2: at most one request is in flight, and while a request is in flight
\* the submit control of the mounted component is disabled.
C2_AtMostOneInFlight ==
  /\ Len(requests) <= 1
  /\ (mounted /\ Len(requests) >= 1) => SubmitDisabled

\* C2 witness: a request is in flight and only Loading keeps the control
\* disabled (the debounced URL is valid and no validation error is shown).
C2_Witness ==
  /\ mounted
  /\ Len(requests) = 1
  /\ HasPrefix(debouncedUrl)
  /\ urlError = ""
  /\ ~validationPending

\* C3: whenever a request of the mounted component settles (success,
\* failure response or thrown exception), Loading is false afterwards; and
\* given that requests settle, a visible spinner always goes away.
C3_LoadingCleared ==
  /\ [][(mounted /\ Len(requests') < Len(requests)) => ~isLoading']_vars
  /\ (SpinnerVisible ~> ~SpinnerVisible)

\* C3 witness: a request has just settled in the catch path and Loading is off.
C3_Witness ==
  /\ mounted
  /\ last = "settle"
  /\ error = MsgNetwork
  /\ ~isLoading
  /\ requests = << >>

\* The relation between Validation Error and Debounced URL.
ValidationRelation ==
  Truthy(urlError) <=> (debouncedUrl # EmptyUrl /\ ~HasPrefix(debouncedUrl))

\* C4: in every state in which the submit control can be activated, the
\* validation error is non-empty iff the debounced URL is non-empty and lacks
\* the prefix, so the control is never enabled while the debounced URL fails
\* the prefix check.
C4_EnabledImpliesValidated ==
  (mounted /\ ~SubmitDisabled) => (ValidationRelation /\ HasPrefix(debouncedUrl))

\* C5: the debounced URL changes only to the current (final) input value,
\* and only when that value has been in the input for the full delay; a
\* value that was replaced sooner is never adopted.
C5_OnlyFinalValueAdopted ==
  [][debouncedUrl' # debouncedUrl =>
       /\ debouncedUrl' = url
       /\ timers = { [value |-> url, age |-> Delay] }]_vars

\* C5 witness: after a run of at least two input changes, each less than the
\* delay after the one before, the timer has fired and the debounced URL is
\* the final value.
C5_Witness ==
  /\ burst >= 2
  /\ last = "timer"
  /\ debouncedUrl = url
  /\ validationPending

\* C6: the submission handler invoked with a non-empty debounced URL that
\* lacks the prefix issues no request, does not change Loading and leaves
\* Submission Error equal to the invalid-format message.
C6_InvalidUrlAborts ==
  [][(last' = "submit" /\ debouncedUrl # EmptyUrl /\ ~HasPrefix(debouncedUrl)) =>
       /\ requests' = requests
       /\ isLoading' = isLoading
       /\ error' = MsgInvalid]_vars

\* C6 witness: the handler has run with an invalid debounced URL while the
\* raw input already holds a valid one.
C6_Witness ==
  /\ last = "submit"
  /\ debouncedUrl = BadUrl
  /\ url = VideoUrl
  /\ error = MsgInvalid
  /\ ~isLoading

\* C7: the submission handler invoked with an empty debounced URL issues no
\* request, does not change Loading and leaves Submission Error equal to the
\* empty-input message, also when the raw input is already non-empty.
C7_EmptyUrlAborts ==
  [][(last' = "submit" /\ debouncedUrl = EmptyUrl) =>
       /\ requests' = requests
       /\ isLoading' = isLoading
       /\ error' = MsgEmpty]_vars

\* C7 witness: the handler has run with an empty debounced URL while the raw
\* input holds a valid URL that the debounce has not adopted yet.
C7_Witness ==
  /\ last = "submit"
  /\ debouncedUrl = EmptyUrl
  /\ url = VideoUrl
  /\ error = MsgEmpty
  /\ ~isLoading

\* The request of the mounted component whose response.json() is about to
\* settle with body b.
SettlesWith(b) ==
  /\ mounted
  /\ last' = "settle"
  /\ Len(requests) = 1
  /\ requests[1].phase = "json"
  /\ requests[1].body = b

\* C8: when a response with a truthy success indicator and a non-empty
\* summary settles, the summary panel shows that summary, Loading is false
\* and Submission Error is empty.
C8_SuccessShowsSummary ==
  [][\A b \in ResponseBodies :
       (SettlesWith(b) /\ b.kind = "json" /\ b.success /\ Truthy(b.summary)) =>
         /\ summary' = b.summary
         /\ SummaryPanelVisible'
         /\ ~ErrorPanelVisible'
         /\ ~isLoading'
         /\ error' = ""]_vars

\* C8 witness: the summary panel shows the text of a response that has just
\* settled.
C8_Witness ==
  /\ last = "settle"
  /\ SummaryPanelVisible
  /\ summary = "# Other"
  /\ error = ""

\* C9: when a response with a falsy success indicator settles, the error
\* panel is shown, Loading is false, Summary is empty and Submission Error is
\* the response's error field if that is non-empty, the fallback otherwise.
C9_FailureShowsError ==
  [][\A b \in ResponseBodies :
       (SettlesWith(b) /\ b.kind = "json" /\ ~b.success) =>
         /\ error' = (IF Truthy(b.error) THEN b.error ELSE MsgFailed)
         /\ ErrorPanelVisible'
         /\ ~isLoading'
         /\ summary' = ""]_vars

\* C9 witness: the error panel shows the error field of a response that has
\* just settled.
C9_Witness ==
  /\ last = "settle"
  /\ ErrorPanelVisible
  /\ error = "boom"
  /\ summary = ""

\* The request of the mounted component is about to fail with an exception:
\* fetch rejects, response.json() rejects, or reading the parsed body throws.
SettlesByException ==
  /\ mounted
  /\ last' = "settle"
  /\ Len(requests) = 1
  /\ \/ requests[1].phase = "fetch"
     \/ requests[1].phase = "json" /\ requests[1].body.kind # "json"

\* C10: when a request fails by a thrown exception, the error panel shows
\* the network-failure message, Loading is false and Summary is empty.
C10_ExceptionShowsNetworkError ==
  [][SettlesByException =>
       /\ error' = MsgNetwork
       /\ ErrorPanelVisible'
       /\ ~isLoading'
       /\ summary' = ""]_vars

\* C10 witness: a request has just failed with an exception and the error
\* panel shows the network-failure message.
C10_Witness ==
  /\ last = "settle"
  /\ ErrorPanelVisible
  /\ error = MsgNetwork
  /\ summary = ""
  /\ isValidBiliUrl(debouncedUrl)

\* A step in which a response with a truthy success indicator settles.
SuccessSettles ==
  /\ last' = "settle"
  /\ \E i \in 1..Len(requests) :
       /\ requests[i].phase = "json"
       /\ requests[i].body.kind = "json"
       /\ requests[i].body.success

\* C11: Summary becomes non-empty only in a step in which a response with a
\* truthy success indicator settles, and every invocation of the submission
\* handler, whatever its outcome, leaves Summary empty.
C11_SummaryClearedByEverySubmission ==
  [][/\ (Truthy(summary') /\ summary' # summary) => SuccessSettles
     /\ (last' = "submit") => summary' = ""]_vars

\* C12: every request that is issued carries the debounced URL of the moment
\* of submission, which is non-empty and begins with the literal prefix; no
\* request in flight carries any other url.
C12_RequestCarriesDebouncedUrl ==
  /\ [][Len(requests') > Len(requests) =>
          /\ Len(requests') = Len(requests) + 1
          /\ requests'[Len(requests')].url = debouncedUrl
          /\ debouncedUrl # EmptyUrl
          /\ HasPrefix(debouncedUrl)]_vars
  /\ [](\A i \in 1..Len(requests) :
          requests[i].url # EmptyUrl /\ HasPrefix(requests[i].url))

\* C12 witness: a request has just been issued with the debounced URL while
\* the raw input holds another value, which the debounce has not adopted.
C12_Witness ==
  /\ last = "submit"
  /\ Len(requests) = 1
  /\ requests[1].url = BiliPrefix
  /\ debouncedUrl = BiliPrefix
  /\ url = BadUrl

\* The string s consists of the literal prefix followed by some suffix.
BeginsWithLiteral(s) ==
  /\ Len(s) >= Len(BiliPrefix)
  /\ \A i \in 1..Len(BiliPrefix) : s[i] = BiliPrefix[i]

\* C13: isValidBiliUrl returns true for a string if and only if the string
\* begins with the literal prefix: false for the empty string and for every
\* string without the prefix, proper prefixes of the literal included, true
\* for the literal followed by any suffix.
C13_ValidatorIsPrefixTest ==
  \A i \in 1..Len(validated) :
    /\ validated[i].result = BeginsWithLiteral(validated[i].arg)
    /\ validated[i].arg = EmptyUrl => ~validated[i].result
    /\ (\E k \in 0..(Len(BiliPrefix) - 1) :
          validated[i].arg = SubSeq(BiliPrefix, 1, k)) => ~validated[i].result
    /\ (\E suffix \in Suffixes : validated[i].arg = BiliPrefix \o suffix)
          => validated[i].result

\* C13 witness: the validator has returned true for the literal followed by
\* a suffix of two characters.
C13_Witness ==
  validated = << [arg |-> BiliPrefix \o << "/", "x" >>, result |-> TRUE] >>

\* C14: from every reachable state of the mounted component in which
\* Submission Error is non-empty and no request is in flight, a run of user
\* edits, debounce firing, validation, submission and a successful response
\* reaches the summary panel with Submission Error empty.  (Every such state
\* is one in which recovery can start, and every run of RecoverySpec from
\* there consists of steps of the component.)
C14_ErrorsRecoverable ==
  (recovering # "" /\ mounted /\ Truthy(error) /\ requests = << >>)
    ~> (SummaryPanelVisible /\ error = "")

\* C14 witness: the user set out to recover from the empty-input error and
\* the summary panel is shown with no error.
C14_Witness ==
  /\ recovering = MsgEmpty
  /\ last = "settle"
  /\ SummaryPanelVisible
  /\ error = ""

\* C15: every input change leaves exactly the newly scheduled update
\* pending, so at most one scheduled update is pending at any time; after
\* the component is torn down no scheduled update is pending and the
\* debounced value does not change any more.
C15_OneTimerNoneAfterTeardown ==
  /\ [](Cardinality(timers) <= 1 /\ (~mounted => timers = {}))
  /\ [][url' # url => timers' = { [value |-> url', age |-> 0] }]_vars
  /\ [][~mounted => debouncedUrl' = debouncedUrl]_vars

\* C15 witness: the component was torn down while an update was scheduled
\* (the debounced value lags the input) and nothing is pending.
C15_Witness ==
  /\ ~mounted
  /\ last = "unmount"
  /\ timers = {}
  /\ url = VideoUrl
  /\ debouncedUrl = EmptyUrl

C17_LoadingIffInFlight ==
  /\ [](mounted => (isLoading <=> Len(requests) = 1))
  /\ [][(~isLoading /\ isLoading') =>
          (last' = "submit" /\ Len(requests') = Len(requests) + 1)]_vars
  /\ [][(isLoading /\ ~isLoading') =>
          (last' = "settle" /\ Len(requests') = Len(requests) - 1)]_vars

\* C17 witness: Loading is true while the one request waits for its body.
C17_Witness ==
  /\ mounted
  /\ isLoading
  /\ Len(requests) = 1
  /\ requests[1].phase = "json"
  /\ last = "response"

\* C18: while the component is mounted and no debounce update is pending,
\* the debounced URL equals the raw input; the debounced URL only ever takes
\* the value the input has; and when the input of the mounted component
\* stops changing, the debounced URL becomes and stays equal to it.
C18_DebouncedFollowsInput ==
  /\ []((mounted /\ timers = {}) => debouncedUrl = url)
  /\ [][debouncedUrl' # debouncedUrl => debouncedUrl' = url]_vars
  /\ \A v \in InputUrls :
       <>[](mounted /\ url = v) => <>[](debouncedUrl = v)

\* C18 witness: the timer has fired, nothing is pending and the debounced
\* URL has caught up with the input.
C18_Witness ==
  /\ mounted
  /\ last = "timer"
  /\ timers = {}
  /\ url = VideoUrl
  /\ debouncedUrl = VideoUrl

\* C19: while Loading is true the raw input does not change, so as long as
\* a request is in flight the raw input is the one of the moment the request
\* was issued.
C19_InputFrozenWhileLoading ==
  /\ [][isLoading => url' = url]_vars
  /\ [](\A i \in 1..Len(requests) : requests[i].input = url)

\* C19 witness: a request is about to settle, the input control is disabled
\* and the raw input (not the url that was sent) is the one of submission.
C19_Witness ==
  /\ mounted
  /\ InputDisabled
  /\ Len(requests) = 1
  /\ requests[1].phase = "json"
  /\ requests[1].input = url
  /\ url = BadUrl
  /\ requests[1].url = VideoUrl

=============================================================================
